---- MODULE Spec2Model ----
(***************************************************************************)
(* A model of three functions of the repository:                           *)
(*   create_sql_agent   (agent_toolkits/sql/base.py)                       *)
(*   NLPCloud._call     (llms/nlpcloud.py)                                 *)
(*   print_sys_info     (langchain_core/sys_info.py)                       *)
(* Each function is one action: it draws the arguments (and, where the     *)
(* function reads it, the environment) from small sets and records the     *)
(* arguments together with everything the function handed to its           *)
(* collaborators and to its caller.                                        *)
(***************************************************************************)
EXTENDS Integers, Sequences, FiniteSets, TLC

\* ------------------------------------------------------------------ bounds

\* Longest tool list toolkit.get_tools() returns.
MaxToolkitTools == 2
\* Longest extra_tools sequence a caller passes.
MaxExtraTools == 1

\* Longest stop list a caller passes to NLPCloud._call.
MaxStop == 2
\* Most modules pkgutil.iter_modules() yields.
MaxModules == 3
\* Longest additional_pkgs a caller passes to print_sys_info.
MaxAdditionalPkgs == 2

VARIABLES
    pc,          \* "idle" before the call, "done" after it
    call,        \* the arguments of the call, as the caller wrote them
    result,      \* the outcome of the call: what was returned or raised
    self,        \* the NLPCloud instance: its fields
    client,      \* the calls self.client.generation has received, in order
    env          \* the interpreter's environment print_sys_info inspects

vars == <<pc, call, result, self, client, env>>

\* ------------------------------------------------------- python values

\* An argument the caller left out of the call (z: a value of the parameter's type).
Absent(z) == [given |-> FALSE, isNone |-> FALSE, val |-> z]
\* An explicit None.
NoneOf(z) == [given |-> TRUE, isNone |-> TRUE, val |-> z]
\* An explicit value.
Val(v) == [given |-> TRUE, isNone |-> FALSE, val |-> v]

\* Parameter binding: an omitted argument takes the parameter's default.
Bind(arg, default) == IF arg.given THEN arg ELSE default

\* Python truthiness of an Optional[str]: None and "" are falsy.
Truthy(x) == ~x.isNone /\ x.val # ""

\* `x or y` on Optional[str] operands.
PyOr(x, y) == IF Truthy(x) THEN x ELSE y

\* A dict with no entries; dicts are functions from key strings to values.
EmptyDict == [k \in {} |-> TRUE]

\* All sequences over S of length at most n.
SeqsUpTo(S, n) == UNION {[1..k -> S] : k \in 0..n}

\* ------------------------------------------------- create_sql_agent: names

\* AgentType members the function dispatches on (str-valued enum members).
ZERO_SHOT_REACT_DESCRIPTION == "zero-shot-react-description"
OPENAI_FUNCTIONS == "openai-functions"

\* A prompt template is a sequence of pieces: literal text or a replacement field.
Lit(s) == [field |-> FALSE, text |-> s]
Field(name) == [field |-> TRUE, text |-> name]

\* The built-in prompt texts the module imports.
SQL_PREFIX == <<Lit("Create a "), Field("dialect"), Lit(" query, at most "), Field("top_k"), Lit(" rows.")>>
SQL_SUFFIX == "Begin! Question: {input} Thought: {agent_scratchpad}"
SQL_FUNCTIONS_SUFFIX == "I should look at the tables in the database."

\* Defaults of the signature.
DefaultTopK == 10
DefaultMaxIterations == 15
DefaultEarlyStoppingMethod == "force"

\* Placeholders for what was never built.
NoError == [kind |-> "none", arg |-> ""]
NoPrompt == [kind |-> "none"]
NoAgent == [kind |-> "none"]
NoExecutor == [kind |-> "none"]

\* ------------------------------------------- create_sql_agent: the steps

\* Lines 54-57: `warnings.warning(...)`. The warnings module has warn, not
\* warning: the attribute lookup raises AttributeError before anything is emitted.
KwargsCheck(kwargs) ==
    IF kwargs # EmptyDict
    THEN [raised |-> TRUE, error |-> [kind |-> "AttributeError", arg |-> "warning"], warnings |-> <<>>]
    ELSE [raised |-> FALSE, error |-> NoError, warnings |-> <<>>]

\* Fault variant of EffectiveAgentType: no default is substituted for None.
EffectiveAgentTypeNoDefault(agent_type) == agent_type

\* Line 59: agent_type or AgentType.ZERO_SHOT_REACT_DESCRIPTION.
EffectiveAgentType(agent_type) == PyOr(agent_type, Val(ZERO_SHOT_REACT_DESCRIPTION))

\* Fault variant of MergeTools: the extra tools are put first.
MergeToolsExtraFirst(toolkit_tools, extra_tools) == extra_tools \o toolkit_tools

\* Line 60: toolkit.get_tools() + list(extra_tools).
MergeTools(toolkit_tools, extra_tools) == toolkit_tools \o extra_tools

\* str.format(dialect=..., top_k=...): each replacement field is replaced by the
\* str() of the named argument; a field naming neither raises KeyError.
RECURSIVE Format(_, _, _)
Format(template, dialect, top_k) ==
    IF template = <<>> THEN [ok |-> TRUE, text |-> "", missing |-> ""]
    ELSE LET piece == Head(template)
             rest == Format(Tail(template), dialect, top_k)
             known == piece.text \in {"dialect", "top_k"}
             shown == IF ~piece.field THEN piece.text
                      ELSE IF piece.text = "dialect" THEN dialect
                      ELSE ToString(top_k)
         IN IF piece.field /\ ~known
            THEN [ok |-> FALSE, text |-> "", missing |-> piece.text]
            ELSE IF ~rest.ok THEN rest
            ELSE [ok |-> TRUE, text |-> shown \o rest.text, missing |-> ""]

\* Line 61: prefix.format(dialect=toolkit.dialect, top_k=top_k).
FormatPrefix(prefix, dialect, top_k) == Format(prefix, dialect, top_k)

\* Fault variant of PromptParams: tests truthiness instead of `is not None`.
PromptParamsIfTruthy(format_instructions) ==
    IF Truthy(format_instructions)
    THEN [k \in {"format_instructions"} |-> format_instructions.val]
    ELSE [k \in {} |-> ""]

\* Lines 64-68: the extra keyword arguments of create_prompt.
PromptParams(format_instructions) ==
    IF ~format_instructions.isNone
    THEN [k \in {"format_instructions"} |-> format_instructions.val]
    ELSE [k \in {} |-> ""]

\* Line 72: suffix or SQL_SUFFIX.
ZeroShotSuffix(suffix) == PyOr(suffix, Val(SQL_SUFFIX)).val

\* Fault variant of FunctionsSuffix: falls back to the zero-shot default.
FunctionsSuffixZeroShotDefault(suffix) == PyOr(suffix, Val(SQL_SUFFIX)).val

\* Line 82: suffix or SQL_FUNCTIONS_SUFFIX.
FunctionsSuffix(suffix) == PyOr(suffix, Val(SQL_FUNCTIONS_SUFFIX)).val

\* Lines 69-75: the call ZeroShotAgent.create_prompt(tools, prefix=, suffix=,
\* input_variables=, **prompt_params), recorded with its arguments.
ZeroShotPrompt(tools, prefix, suffix, input_variables, format_instructions) ==
    [kind |-> "ZeroShotAgent.create_prompt",
     tools |-> tools,
     prefix |-> prefix,
     suffix |-> ZeroShotSuffix(suffix),
     input_variables |-> input_variables,
     params |-> PromptParams(format_instructions)]

\* Fault variant of FunctionsMessages: the assistant message precedes the user input.
FunctionsMessagesSuffixBeforeInput(prefix, suffix) ==
    << [type |-> "SystemMessage", arg |-> prefix],
       [type |-> "AIMessage", arg |-> PyOr(suffix, Val(SQL_FUNCTIONS_SUFFIX)).val],
       [type |-> "HumanMessagePromptTemplate", arg |-> "{input}"],
       [type |-> "MessagesPlaceholder", arg |-> "agent_scratchpad"] >>

\* Lines 79-84: the message list of the function-calling prompt.
FunctionsMessages(prefix, suffix) ==
    << [type |-> "SystemMessage", arg |-> prefix],
       [type |-> "HumanMessagePromptTemplate", arg |-> "{input}"],
       [type |-> "AIMessage", arg |-> FunctionsSuffix(suffix)],
       [type |-> "MessagesPlaceholder", arg |-> "agent_scratchpad"] >>

\* Line 85: ChatPromptTemplate.from_messages(messages).
FunctionsPrompt(prefix, suffix) ==
    [kind |-> "ChatPromptTemplate.from_messages", messages |-> FunctionsMessages(prefix, suffix)]

\* Lines 76 and 86: RunnableAgent(runnable=<factory>(llm, tools, prompt), input_keys_arg=["input"]).
RunnableAgent(factory, llm, tools, prompt) ==
    [kind |-> "RunnableAgent", factory |-> factory, llm |-> llm, tools |-> tools,
     prompt |-> prompt, input_keys_arg |-> <<"input">>]

\* Line 88: the error names the agent type it was given.
UnsupportedAgentType(agent_type) == [kind |-> "ValueError", arg |-> agent_type.val]

\* The keywords the AgentExecutor call of lines 90-97 spells out.
ExecutorKeywords ==
    {"agent", "tools", "callback_manager", "verbose", "max_iterations",
     "max_execution_time", "early_stopping_method"}

\* Line 98: agent_executor_kwargs or {}.
ExecutorKwargs(agent_executor_kwargs) ==
    IF agent_executor_kwargs.isNone THEN EmptyDict ELSE agent_executor_kwargs.val

\* Fault variant of MakeExecutor: early_stopping_method is not passed on, so the
\* executor keeps its own default.
MakeExecutorDropsEarlyStopping(agent, tools, callback_manager, verbose, max_iterations, max_execution_time, early_stopping_method, agent_executor_kwargs) ==
    LET extra == IF agent_executor_kwargs.isNone THEN EmptyDict ELSE agent_executor_kwargs.val
        clash == DOMAIN extra \cap {"agent", "tools", "callback_manager", "verbose",
                                    "max_iterations", "max_execution_time"}
    IN IF clash # {}
       THEN [raised |-> TRUE,
             error |-> [kind |-> "TypeError", arg |-> CHOOSE k \in clash : TRUE],
             executor |-> NoExecutor]
       ELSE [raised |-> FALSE,
             error |-> NoError,
             executor |-> [kind |-> "AgentExecutor",
                           agent |-> agent,
                           tools |-> tools,
                           callback_manager |-> callback_manager,
                           verbose |-> verbose,
                           max_iterations |-> max_iterations,
                           max_execution_time |-> max_execution_time,
                           early_stopping_method |-> Val("force"),
                           extra |-> extra]]

\* Lines 90-99: the AgentExecutor(...) call. A key of agent_executor_kwargs that
\* repeats a spelled-out keyword makes the call itself a TypeError ("got multiple
\* values for keyword argument"); otherwise the executor holds what was passed.
MakeExecutor(agent, tools, callback_manager, verbose, max_iterations, max_execution_time, early_stopping_method, agent_executor_kwargs) ==
    LET extra == ExecutorKwargs(agent_executor_kwargs)
        clash == DOMAIN extra \cap ExecutorKeywords
    IN IF clash # {}
       THEN [raised |-> TRUE,
             error |-> [kind |-> "TypeError", arg |-> CHOOSE k \in clash : TRUE],
             executor |-> NoExecutor]
       ELSE [raised |-> FALSE,
             error |-> NoError,
             executor |-> [kind |-> "AgentExecutor",
                           agent |-> agent,
                           tools |-> tools,
                           callback_manager |-> callback_manager,
                           verbose |-> verbose,
                           max_iterations |-> max_iterations,
                           max_execution_time |-> max_execution_time,
                           early_stopping_method |-> early_stopping_method,
                           extra |-> extra]]

\* What the caller gets when the function raises at some point: the error, and
\* the prompt and agent that had been built by then; never an executor.
Raised(error, warnings, prompt, agent) ==
    [status |-> "raised", error |-> error, warnings |-> warnings,
     prompt |-> prompt, agent |-> agent, executor |-> NoExecutor]

\* Lines 29-99: the whole function. `a` holds the arguments as the caller wrote
\* them; the toolkit contributes a.toolkit.tools and a.toolkit.dialect.
create_sql_agent(a) ==
    LET agent_type_arg == Bind(a.agent_type, NoneOf(""))
        callback_manager == Bind(a.callback_manager, NoneOf(""))
        prefix_arg == Bind(a.prefix, Val(SQL_PREFIX))
        suffix == Bind(a.suffix, NoneOf(""))
        format_instructions == Bind(a.format_instructions, NoneOf(""))
        input_variables == Bind(a.input_variables, NoneOf(<<>>))
        top_k == Bind(a.top_k, Val(DefaultTopK))
        max_iterations == Bind(a.max_iterations, Val(DefaultMaxIterations))
        max_execution_time == Bind(a.max_execution_time, NoneOf(0))
        early_stopping_method == Bind(a.early_stopping_method, Val(DefaultEarlyStoppingMethod))
        verbose == Bind(a.verbose, Val(FALSE))
        agent_executor_kwargs == Bind(a.agent_executor_kwargs, NoneOf(EmptyDict))
        checked == KwargsCheck(a.kwargs)
        agent_type == EffectiveAgentType(agent_type_arg)
        tools == MergeTools(a.toolkit.tools, a.extra_tools)
        prefix == FormatPrefix(prefix_arg.val, a.toolkit.dialect, top_k.val)
        Finish(prompt, agent) ==
            LET made == MakeExecutor(agent, tools, callback_manager, verbose, max_iterations,
                                     max_execution_time, early_stopping_method,
                                     agent_executor_kwargs)
            IN IF made.raised
               THEN Raised(made.error, checked.warnings, prompt, agent)
               ELSE [status |-> "returned", error |-> NoError, warnings |-> checked.warnings,
                     prompt |-> prompt, agent |-> agent, executor |-> made.executor]
    IN IF checked.raised
       THEN Raised(checked.error, checked.warnings, NoPrompt, NoAgent)
       ELSE IF ~prefix.ok
       THEN Raised([kind |-> "KeyError", arg |-> prefix.missing], checked.warnings, NoPrompt, NoAgent)
       ELSE IF agent_type.val = ZERO_SHOT_REACT_DESCRIPTION
       THEN LET prompt == ZeroShotPrompt(tools, prefix.text, suffix, input_variables,
                                         format_instructions)
            IN Finish(prompt, RunnableAgent("create_react_agent", a.llm, tools, prompt))
       ELSE IF agent_type.val = OPENAI_FUNCTIONS
       THEN LET prompt == FunctionsPrompt(prefix.text, suffix)
            IN Finish(prompt, RunnableAgent("create_openai_functions_agent", a.llm, tools, prompt))
       ELSE Raised(UnsupportedAgentType(agent_type), checked.warnings, NoPrompt, NoAgent)

\* ------------------------------------------- create_sql_agent: the inputs

ToolNames == {"sql_db_query", "sql_db_schema"}
ExtraToolNames == {"extra_tool"}
Dialects == {"sqlite", "postgresql"}

AgentTypeArgs ==
    {Absent(""), NoneOf(""), Val(""), Val(ZERO_SHOT_REACT_DESCRIPTION),
     Val(OPENAI_FUNCTIONS), Val("bogus")}
PrefixArgs ==
    {Absent(<<>>),
     Val(<<Lit("Show "), Field("top_k"), Lit(" rows of "), Field("dialect")>>),
     Val(<<Lit("Query the table "), Field("table")>>)}
SuffixArgs == {Absent(""), NoneOf(""), Val(""), Val("Answer briefly.")}
FormatInstructionsArgs ==
    {Absent(""), NoneOf(""), Val(""), Val("Use the format: Action / Input")}
InputVariablesArgs == {Absent(<<>>), Val(<<"input", "agent_scratchpad">>)}
TopKArgs == {Absent(0), Val(5)}
MaxIterationsArgs == {Absent(0), NoneOf(0), Val(5)}
MaxExecutionTimeArgs == {Absent(0), Val(30)}
EarlyStoppingMethodArgs == {Absent(""), Val("generate")}
VerboseArgs == {Absent(FALSE), Val(TRUE)}
CallbackManagerArgs == {Absent(""), Val("callback_manager")}
AgentExecutorKwargsArgs ==
    {Absent(EmptyDict),
     Val(EmptyDict),
     Val([k \in {"handle_parsing_errors"} |-> TRUE]),
     Val([k \in {"verbose"} |-> TRUE]),
     Val([k \in {"handle_parsing_errors", "max_iterations"} |-> TRUE])}
KwargsArgs == {EmptyDict, [k \in {"allowed_tools"} |-> TRUE]}
ToolLists == SeqsUpTo(ToolNames, MaxToolkitTools)
ExtraToolLists == SeqsUpTo(ExtraToolNames, MaxExtraTools)

\* Calls that vary what goes into the prompt and the tool list, the execution
\* configuration left to its defaults.
PromptCalls ==
    [llm : {"llm"},
     toolkit : [tools : ToolLists, dialect : Dialects],
     agent_type : AgentTypeArgs,
     callback_manager : {Absent("")},
     prefix : PrefixArgs,
     suffix : SuffixArgs,
     format_instructions : FormatInstructionsArgs,
     input_variables : InputVariablesArgs,
     top_k : TopKArgs,
     max_iterations : {Absent(0)},
     max_execution_time : {Absent(0)},
     early_stopping_method : {Absent("")},
     verbose : {Absent(FALSE)},
     agent_executor_kwargs : {Absent(EmptyDict)},
     extra_tools : ExtraToolLists,
     kwargs : KwargsArgs]

\* Calls that vary the execution configuration and the tool list, the prompt
\* texts left to their defaults.
ExecutorCalls ==
    [llm : {"llm"},
     toolkit : [tools : ToolLists, dialect : {"sqlite"}],
     agent_type : AgentTypeArgs,
     callback_manager : CallbackManagerArgs,
     prefix : {Absent(<<>>)},
     suffix : {Absent("")},
     format_instructions : {Absent("")},
     input_variables : {Absent(<<>>)},
     top_k : {Absent(0)},
     max_iterations : MaxIterationsArgs,
     max_execution_time : MaxExecutionTimeArgs,
     early_stopping_method : EarlyStoppingMethodArgs,
     verbose : VerboseArgs,
     agent_executor_kwargs : AgentExecutorKwargsArgs,
     extra_tools : ExtraToolLists,
     kwargs : KwargsArgs]

\* --------------------------------------------------------- the state machine

NoCall == [made |-> FALSE]

Init ==
    /\ pc = "idle"
    /\ call = NoCall
    /\ result = NoCall
    /\ self = NoCall
    /\ client = <<>>
    /\ env = NoCall

\* One call of create_sql_agent.
CreateSqlAgent ==
    /\ pc = "idle"
    /\ \E a \in PromptCalls \cup ExecutorCalls :
        /\ call' = a
        /\ result' = create_sql_agent(a)
    /\ pc' = "done"
    /\ UNCHANGED <<self, client, env>>

Next == CreateSqlAgent

Spec == Init /\ [][Next]_vars

\* ------------------------------------------- create_sql_agent: the claims

Done == pc = "done"
Returned == Done /\ result.status = "returned"
SupportedAgentTypes == {ZERO_SHOT_REACT_DESCRIPTION, OPENAI_FUNCTIONS}
ZeroShotBuilt == Done /\ result.prompt.kind = "ZeroShotAgent.create_prompt"
FunctionsBuilt == Done /\ result.prompt.kind = "ChatPromptTemplate.from_messages"
\* The caller passed no value: the argument is left out or is None.
NotSupplied(arg) == ~arg.given \/ arg.isNone
\* What the caller's argument amounts to once the default d stands in for an omission.
Given(arg, d) == IF arg.given THEN arg ELSE d

\* C1: whenever create_sql_agent returns an executor, the executor's tool list is
\* the toolkit's tools followed by the extra tools, in order, nothing dropped or
\* duplicated; the runnable agent is built over that same list, and so is the
\* prompt wherever prompt construction takes a tool list (the zero-shot prompt).
C1_ToolsAreToolkitThenExtra ==
    Returned =>
        /\ result.executor.tools = call.toolkit.tools \o call.extra_tools
        /\ Len(result.executor.tools) = Len(call.toolkit.tools) + Len(call.extra_tools)
        /\ result.agent.tools = result.executor.tools
        /\ result.agent.kind = "RunnableAgent"
        /\ result.executor.agent = result.agent
        /\ result.prompt.kind \in {"ZeroShotAgent.create_prompt", "ChatPromptTemplate.from_messages"}
        /\ (result.prompt.kind = "ZeroShotAgent.create_prompt"
              => result.prompt.tools = result.executor.tools)

\* C1 witness: a zero-shot executor over two different toolkit tools and one extra tool.
C1_Witness ==
    /\ Returned
    /\ call.agent_type = Val(ZERO_SHOT_REACT_DESCRIPTION)
    /\ Len(call.toolkit.tools) = 2
    /\ call.toolkit.tools[1] # call.toolkit.tools[2]
    /\ Len(call.extra_tools) = 1
    /\ result.executor.tools = <<call.toolkit.tools[1], call.toolkit.tools[2], call.extra_tools[1]>>

\* The prefix template of the call has only the fields the function fills in.
PrefixFormats ==
    Format(Given(call.prefix, Val(SQL_PREFIX)).val, call.toolkit.dialect,
           Given(call.top_k, Val(10)).val).ok

\* C2, as claimed: every agent_type value (other than an omitted or None one) that
\* is not a supported strategy makes the call fail with the error naming that
\* value, with no executor and no strategy's prompt or agent built (for a prefix
\* template the function can interpolate, so that the dispatch is what decides).
C2_UnsupportedTypeRaisesNamedError ==
    (Done /\ call.agent_type.given /\ ~call.agent_type.isNone
          /\ call.agent_type.val \notin SupportedAgentTypes
          /\ PrefixFormats) =>
        /\ result.status = "raised"
        /\ result.error = [kind |-> "ValueError", arg |-> call.agent_type.val]
        /\ result.executor = NoExecutor
        /\ result.prompt = NoPrompt
        /\ result.agent = NoAgent

\* C3, as claimed: with non-empty **kwargs and a supported agent type the call
\* emits a warning and returns what it returns without the extra arguments.
C3_ExtraKwargsOnlyWarn ==
    LET plain == create_sql_agent([call EXCEPT !.kwargs = EmptyDict])
    IN (Done /\ call.kwargs # EmptyDict
             /\ call.agent_type.given /\ call.agent_type.val \in SupportedAgentTypes
             /\ plain.status = "returned") =>
        /\ result.status = "returned"
        /\ result.executor = plain.executor
        /\ Len(result.warnings) >= 1

\* C4: in the zero-shot strategy, no format_instructions argument reaches prompt
\* construction when the caller supplied none (omitted or None); when the caller
\* supplied one, the empty string included, exactly that value is passed.
C4_FormatInstructionsPassThrough ==
    ZeroShotBuilt =>
        IF NotSupplied(call.format_instructions)
        THEN DOMAIN result.prompt.params = {}
        ELSE /\ DOMAIN result.prompt.params = {"format_instructions"}
             /\ result.prompt.params["format_instructions"] = call.format_instructions.val

\* C4 witness: a zero-shot prompt built with an empty-string format_instructions.
C4_Witness ==
    /\ ZeroShotBuilt
    /\ call.format_instructions = Val("")
    /\ result.prompt.params = [k \in {"format_instructions"} |-> ""]

\* The suffix a built prompt carries.
UsedSuffix ==
    IF result.prompt.kind = "ZeroShotAgent.create_prompt"
    THEN result.prompt.suffix
    ELSE result.prompt.messages[3].arg
\* The built-in suffix of the strategy that built the prompt.
BuiltInSuffix ==
    IF result.prompt.kind = "ZeroShotAgent.create_prompt" THEN SQL_SUFFIX ELSE SQL_FUNCTIONS_SUFFIX

\* C5, as claimed: without a suffix the strategy uses its built-in suffix, and any
\* suffix the caller supplies is the suffix used.
C5_AnySuppliedSuffixIsUsed ==
    (ZeroShotBuilt \/ FunctionsBuilt) =>
        IF NotSupplied(call.suffix)
        THEN UsedSuffix = BuiltInSuffix
        ELSE UsedSuffix = call.suffix.val

\* C5, amended: without a suffix (omitted, None) or with an empty-string suffix
\* the zero-shot strategy uses SQL_SUFFIX and the function-calling strategy
\* SQL_FUNCTIONS_SUFFIX; a non-empty suffix is used in place of the built-in one.
C5_NonEmptySuffixIsUsed ==
    (ZeroShotBuilt \/ FunctionsBuilt) =>
        /\ SQL_SUFFIX # SQL_FUNCTIONS_SUFFIX
        /\ IF NotSupplied(call.suffix) \/ call.suffix.val = ""
           THEN UsedSuffix = BuiltInSuffix
           ELSE UsedSuffix = call.suffix.val /\ UsedSuffix # BuiltInSuffix

\* C5 witness: the function-calling strategy built for a caller who passed suffix="".
C5_Witness ==
    /\ FunctionsBuilt
    /\ call.suffix = Val("")
    /\ result.prompt.messages[3].arg = SQL_FUNCTIONS_SUFFIX

\* The keyword arguments the caller passed for the executor.
CallExecutorKwargs ==
    IF NotSupplied(call.agent_executor_kwargs) THEN EmptyDict ELSE call.agent_executor_kwargs.val
\* The execution configuration arrives in the executor as the caller gave it.
ConfigPassedThrough ==
    /\ result.executor.max_iterations = Given(call.max_iterations, Val(15))
    /\ result.executor.max_execution_time = Given(call.max_execution_time, NoneOf(0))
    /\ result.executor.early_stopping_method = Given(call.early_stopping_method, Val("force"))
    /\ result.executor.verbose = Given(call.verbose, Val(FALSE))
\* The strategy's agent was built, so the call reached the AgentExecutor(...) line.
AgentBuilt == Done /\ result.agent.kind = "RunnableAgent"

\* C6, as claimed: once the agent is built the executor is returned with
\* max_iterations, max_execution_time, early_stopping_method and verbose as given
\* (defaults 15, None, "force", False) and with every entry of
\* agent_executor_kwargs applied to it.
C6_EveryExecutorKwargApplied ==
    AgentBuilt =>
        /\ result.status = "returned"
        /\ ConfigPassedThrough
        /\ \A k \in DOMAIN CallExecutorKwargs :
              /\ k \in DOMAIN result.executor.extra
              /\ result.executor.extra[k] = CallExecutorKwargs[k]

\* C6, amended: once the agent is built, if no key of agent_executor_kwargs is one
\* of the keywords the function passes itself, the executor is returned with
\* max_iterations, max_execution_time, early_stopping_method and verbose as given
\* (defaults 15, None, "force", False) and with exactly the entries of
\* agent_executor_kwargs as additional arguments; a key that repeats one of those
\* keywords overrides nothing: the call raises TypeError and returns no executor.
C6_ConfigPassThrough ==
    AgentBuilt =>
        IF DOMAIN CallExecutorKwargs \cap
              {"agent", "tools", "callback_manager", "verbose", "max_iterations",
               "max_execution_time", "early_stopping_method"} = {}
        THEN /\ result.status = "returned"
             /\ ConfigPassedThrough
             /\ result.executor.extra = CallExecutorKwargs
        ELSE /\ result.status = "raised"
             /\ result.error.kind = "TypeError"
             /\ result.executor = NoExecutor

\* C6 witness: an executor returned with every limit set by the caller and an
\* additional executor argument.
C6_Witness ==
    /\ Returned
    /\ call.max_iterations = Val(5)
    /\ call.max_execution_time = Val(30)
    /\ call.early_stopping_method = Val("generate")
    /\ call.verbose = Val(TRUE)
    /\ result.executor.early_stopping_method = Val("generate")
    /\ DOMAIN result.executor.extra = {"handle_parsing_errors"}

\* C7: the function-calling prompt is exactly four messages: a system message
\* holding the prefix interpolated with the toolkit's dialect and top_k, the
\* user-input placeholder, an assistant message holding the suffix, and the
\* agent_scratchpad placeholder; the zero-shot prompt receives the same
\* interpolated prefix for the same prefix, dialect and top_k.
C7_FunctionsPromptShape ==
    LET template == Given(call.prefix, Val(SQL_PREFIX)).val
        top_k == Given(call.top_k, Val(10)).val
        interpolated == Format(template, call.toolkit.dialect, top_k).text
    IN /\ FunctionsBuilt =>
            /\ Len(result.prompt.messages) = 4
            /\ result.prompt.messages[1] = [type |-> "SystemMessage", arg |-> interpolated]
            /\ result.prompt.messages[2] = [type |-> "HumanMessagePromptTemplate", arg |-> "{input}"]
            /\ result.prompt.messages[3].type = "AIMessage"
            /\ result.prompt.messages[3].arg \in {call.suffix.val, SQL_FUNCTIONS_SUFFIX}
            /\ result.prompt.messages[4] = [type |-> "MessagesPlaceholder", arg |-> "agent_scratchpad"]
            /\ (~call.prefix.given /\ call.toolkit.dialect = "sqlite" /\ ~call.top_k.given
                  => result.prompt.messages[1].arg = "Create a sqlite query, at most 10 rows.")
            /\ (call.prefix.given /\ call.toolkit.dialect = "postgresql" /\ call.top_k = Val(5)
                  => result.prompt.messages[1].arg = "Show 5 rows of postgresql")
       /\ ZeroShotBuilt => result.prompt.prefix = interpolated

\* C7 witness: a function-calling prompt built from a caller's prefix template.
C7_Witness ==
    /\ FunctionsBuilt
    /\ call.prefix.given
    /\ call.toolkit.dialect = "postgresql"
    /\ call.top_k = Val(5)
    /\ result.prompt.messages[1].arg = "Show 5 rows of postgresql"
    /\ result.prompt.messages[3].arg = "Answer briefly."

\* C8: with agent_type omitted or None the zero-shot strategy is the one built
\* (the zero-shot prompt, the react agent), the returned executor runs that agent,
\* and the call never raises the unsupported-type error.
C8_DefaultsToZeroShot ==
    (Done /\ NotSupplied(call.agent_type)) =>
        /\ result.error.kind # "ValueError"
        /\ (result.status = "raised" => result.error.kind \in {"AttributeError", "KeyError", "TypeError"})
        /\ (call.kwargs = EmptyDict /\ PrefixFormats => AgentBuilt)
        /\ (AgentBuilt /\ ~call.agent_executor_kwargs.given => Returned)
        /\ (AgentBuilt =>
              /\ result.prompt.kind = "ZeroShotAgent.create_prompt"
              /\ result.agent.factory = "create_react_agent"
              /\ result.agent.prompt = result.prompt)
        /\ (Returned => result.executor.agent = result.agent)

\* C8 witness: an executor returned for a call that passed agent_type=None.
C8_Witness ==
    /\ Returned
    /\ call.agent_type = NoneOf("")
    /\ result.agent.factory = "create_react_agent"

\* ----------------------------------------------------------- NLPCloud._call

\* The class's field defaults (lines 29-50) that feed _default_params.
NLPCloudFieldDefaults ==
    [temperature |-> "0.7", max_length |-> 256, length_no_input |-> TRUE,
     remove_input |-> TRUE, remove_end_sequence |-> TRUE, bad_words |-> <<>>,
     top_p |-> "1.0", top_k |-> 50, repetition_penalty |-> "1.0",
     num_beams |-> 1, num_return_sequences |-> 1]

\* Lines 81-96: _default_params, the eleven generation parameters of the instance.
_default_params(obj) ==
    [temperature |-> obj.temperature, max_length |-> obj.max_length,
     length_no_input |-> obj.length_no_input, remove_input |-> obj.remove_input,
     remove_end_sequence |-> obj.remove_end_sequence, bad_words |-> obj.bad_words,
     top_p |-> obj.top_p, top_k |-> obj.top_k,
     repetition_penalty |-> obj.repetition_penalty, num_beams |-> obj.num_beams,
     num_return_sequences |-> obj.num_return_sequences]

\* Line 143: {**self._default_params, **kwargs}: the later dict wins a shared key.
MergeParams(defaults, kwargs) ==
    [k \in DOMAIN defaults \cup DOMAIN kwargs |->
        IF k \in DOMAIN kwargs THEN kwargs[k] ELSE defaults[k]]

\* Fault variant of EndSequence: the stop list is ignored.
EndSequenceIgnored(stop) == NoneOf("")

\* Lines 139-142: the end sequence of a stop list that did not raise.
EndSequence(stop) ==
    IF ~stop.isNone /\ Len(stop.val) > 0 /\ Len(stop.val) = 1
    THEN Val(stop.val[1])
    ELSE NoneOf("")

\* Lines 113-145: the whole method. `response` is what the client answers if it
\* is reached: a dict with generated_text, or an exception of the client's.
_call(obj, prompt, stop_arg, kwargs, response) ==
    LET stop == Bind(stop_arg, NoneOf(<<>>))
    IN IF ~stop.isNone /\ Len(stop.val) > 0 /\ Len(stop.val) > 1
       THEN [status |-> "raised", error |-> "ValueError", value |-> "", calls |-> <<>>]
       ELSE LET end_sequence == EndSequence(stop)
                params == MergeParams(_default_params(obj), kwargs)
                sent == [text |-> prompt, end_sequence |-> end_sequence, params |-> params]
            IN IF "end_sequence" \in DOMAIN params
               THEN [status |-> "raised", error |-> "TypeError", value |-> "", calls |-> <<>>]
               ELSE IF ~response.ok
               THEN [status |-> "raised", error |-> "ClientError", value |-> "", calls |-> <<sent>>]
               ELSE [status |-> "returned", error |-> "", value |-> response.generated_text,
                     calls |-> <<sent>>]

\* The instances: the class defaults, some fields set at construction.
NLPCloudInstances ==
    {[NLPCloudFieldDefaults EXCEPT !.temperature = t, !.max_length = m] :
        t \in {"0.7", "0.2"}, m \in {256, 64}}
StopSequences == {"###", "END"}
StopArgs == {Absent(<<>>), NoneOf(<<>>)} \cup {Val(q) : q \in SeqsUpTo(StopSequences, MaxStop)}
CallKwargs ==
    {EmptyDict,
     [k \in {"temperature"} |-> "0.1"],
     [k \in {"max_length", "num_beams"} |-> 4],
     [k \in {"stream"} |-> TRUE],
     [k \in {"end_sequence"} |-> "###"]}
ClientResponses ==
    {[ok |-> TRUE, generated_text |-> "Paris."],
     [ok |-> TRUE, generated_text |-> ""],
     [ok |-> FALSE, generated_text |-> ""]}

InitNLPCloud ==
    /\ pc = "idle"
    /\ call = NoCall
    /\ result = NoCall
    /\ self \in NLPCloudInstances
    /\ client = <<>>
    /\ env = NoCall

\* One call of NLPCloud._call on the instance.
NLPCloudCall ==
    /\ pc = "idle"
    /\ \E prompt \in {"Capital of France?"}, stop \in StopArgs, kwargs \in CallKwargs,
          response \in ClientResponses :
        LET r == _call(self, prompt, stop, kwargs, response)
        IN /\ call' = [prompt |-> prompt, stop |-> stop, kwargs |-> kwargs, response |-> response]
           /\ result' = [status |-> r.status, error |-> r.error, value |-> r.value]
           /\ client' = client \o r.calls
    /\ pc' = "done"
    /\ UNCHANGED <<self, env>>

NextNLPCloud == NLPCloudCall

SpecNLPCloud == InitNLPCloud /\ [][NextNLPCloud]_vars

\* What _call does with the stop list, the client's answer and the parameters
\* both sides name, for a call whose kwargs hold no end_sequence.
StopHandling ==
    LET stop == IF call.stop.given /\ ~call.stop.isNone THEN call.stop.val ELSE <<>>
    IN /\ Len(stop) > 1 =>
            /\ result.status = "raised" /\ result.error = "ValueError"
            /\ client = <<>>
       /\ Len(stop) = 1 =>
            /\ Len(client) = 1
            /\ client[1].end_sequence = Val(stop[1])
       /\ Len(stop) = 0 =>
            /\ Len(client) = 1
            /\ client[1].end_sequence = NoneOf("")
       /\ Len(stop) <= 1 =>
            /\ client[1].text = call.prompt
            /\ result.status = "returned" <=> call.response.ok
            /\ call.response.ok => result.value = call.response.generated_text
            /\ DOMAIN client[1].params = DOMAIN _default_params(self) \cup DOMAIN call.kwargs
            /\ \A k \in DOMAIN call.kwargs : client[1].params[k] = call.kwargs[k]
            /\ \A k \in DOMAIN _default_params(self) \ DOMAIN call.kwargs :
                  client[1].params[k] = self[k]

SortedNames ==
    <<"fastapi", "langchain", "langchain_community", "langchain_core",
      "langchain_openai", "langgraph", "langserve", "numpy">>
Rank(name) == CHOOSE i \in 1..Len(SortedNames) : SortedNames[i] = name

Range(seq) == {seq[i] : i \in 1..Len(seq)}

\* sorted(set(...)): each name once, ascending.
RECURSIVE Sorted(_)
Sorted(names) ==
    IF names = {} THEN <<>>
    ELSE LET least == CHOOSE x \in names : \A y \in names : Rank(x) <= Rank(y)
         IN <<least>> \o Sorted(names \ {least})

\* reversed(seq)
Reversed(seq) == [i \in 1..Len(seq) |-> seq[Len(seq) + 1 - i]]

\* list.remove(x): the list without the first x.
RECURSIVE Remove(_, _)
Remove(seq, x) ==
    IF seq = <<>> THEN <<>>
    ELSE IF Head(seq) = x THEN Tail(seq)
    ELSE <<Head(seq)>> \o Remove(Tail(seq), x)

\* name.startswith("langchain")
StartsWithLangchain(name) ==
    name \in {"langchain", "langchain_community", "langchain_core", "langchain_openai"}

\* Lines 13-16.
other_langchain_packages == <<"langserve", "langgraph">>

\* Lines 18-20: the modules found whose name starts with "langchain".
langchain_pkgs(modules) == SelectSeq(modules, StartsWithLangchain)

\* Line 27.
order_by == <<"langchain_core", "langchain", "langchain_community">>

\* Lines 30-32, for each pkg of `todo` in turn: pkg moves to the front if listed.
RECURSIVE SurfaceEach(_, _)
SurfaceEach(todo, all_packages) ==
    IF todo = <<>> THEN all_packages
    ELSE LET pkg == Head(todo)
             moved == IF pkg \in Range(all_packages)
                      THEN <<pkg>> \o Remove(all_packages, pkg)
                      ELSE all_packages
         IN SurfaceEach(Tail(todo), moved)

\* Fault variant of Surface: order_by is walked front to back.
SurfaceForward(all_packages) == SurfaceEach(order_by, all_packages)

\* Lines 29-32: for pkg in reversed(order_by).
Surface(all_packages) == SurfaceEach(Reversed(order_by), all_packages)

\* Lines 22-32: the package list.
all_packages(modules, additional_pkgs) ==
    Surface(Sorted(Range(langchain_pkgs(modules) \o other_langchain_packages \o additional_pkgs)))

\* Lines 54-57: util.find_spec(pkg), None when it raises.
find_spec(e, pkg) == IF pkg \in e.raising THEN FALSE ELSE pkg \in e.found

\* Lines 63-66: metadata.version(pkg), None when it raises.
package_version(e, pkg) ==
    IF pkg \in e.versioned THEN Val("1.0") ELSE NoneOf("")

\* Lines 53-72: the loop over the packages: the lines printed, and not_installed.
RECURSIVE Report(_, _)
Report(e, pkgs) ==
    IF pkgs = <<>> THEN [printed |-> <<>>, not_installed |-> <<>>]
    ELSE LET pkg == Head(pkgs)
             rest == Report(e, Tail(pkgs))
             version == package_version(e, pkg)
         IN IF ~find_spec(e, pkg)
            THEN [printed |-> rest.printed, not_installed |-> <<pkg>> \o rest.not_installed]
            ELSE IF ~version.isNone
            THEN [printed |-> <<[kind |-> "package", pkg |-> pkg, text |-> version.val]>> \o rest.printed,
                  not_installed |-> rest.not_installed]
            ELSE [printed |-> <<[kind |-> "package", pkg |-> pkg,
                                text |-> "Installed. No version info available."]>> \o rest.printed,
                  not_installed |-> rest.not_installed]

\* Lines 74-81: the section of the packages not found.
NotInstalledSection(not_installed) ==
    IF not_installed = <<>> THEN <<>>
    ELSE <<[kind |-> "blank", pkg |-> "", text |-> ""],
           [kind |-> "heading", pkg |-> "", text |-> "Packages not installed (Not Necessarily a Problem)"],
           [kind |-> "heading", pkg |-> "", text |-> "--------------------------------------------------"],
           [kind |-> "heading", pkg |-> "", text |-> "The following packages were not found:"],
           [kind |-> "blank", pkg |-> "", text |-> ""]>>
         \o [i \in 1..Len(not_installed) |->
                [kind |-> "missing", pkg |-> not_installed[i], text |-> ""]]

\* Lines 5-81: the whole function: the package list it walks and what it prints.
print_sys_info(e, additional_pkgs_arg) ==
    LET additional_pkgs == Bind(additional_pkgs_arg, Val(<<>>)).val
        pkgs == all_packages(e.modules, additional_pkgs)
        report == Report(e, pkgs)
    IN [all_packages |-> pkgs,
        stdout |->
            <<[kind |-> "blank", pkg |-> "", text |-> ""],
              [kind |-> "heading", pkg |-> "", text |-> "System Information"],
              [kind |-> "heading", pkg |-> "", text |-> "------------------"],
              [kind |-> "system", pkg |-> "", text |-> "OS"],
              [kind |-> "system", pkg |-> "", text |-> "OS Version"],
              [kind |-> "system", pkg |-> "", text |-> "Python Version"],
              [kind |-> "blank", pkg |-> "", text |-> ""],
              [kind |-> "heading", pkg |-> "", text |-> "Package Information"],
              [kind |-> "heading", pkg |-> "", text |-> "-------------------"]>>
            \o report.printed \o NotInstalledSection(report.not_installed)]

\* The environments: what iter_modules yields, which packages find_spec finds
\* or raises on, and which have version metadata.
ModuleNames == {"langchain", "langchain_community", "langchain_core", "langchain_openai", "numpy"}
AdditionalNames == {"fastapi", "langchain_core"}
Environments ==
    [modules : SeqsUpTo(ModuleNames, MaxModules),
     found : {Range(SortedNames), {}, {"langchain_core", "langchain", "langgraph"},
              {"langchain_community", "fastapi", "langserve"}},
     raising : {{}, {"langserve"}},
     versioned : {Range(SortedNames), {}, {"langchain_core", "fastapi"}}]
AdditionalPkgsArgs ==
    {Absent(<<>>)} \cup {Val(q) : q \in SeqsUpTo(AdditionalNames, MaxAdditionalPkgs)}

InitSysInfo ==
    /\ pc = "idle"
    /\ call = NoCall
    /\ result = NoCall
    /\ self = NoCall
    /\ client = <<>>
    /\ env \in Environments

\* One call of print_sys_info in the environment.
PrintSysInfo ==
    /\ pc = "idle"
    /\ \E additional_pkgs \in AdditionalPkgsArgs :
        /\ call' = [additional_pkgs |-> additional_pkgs]
        /\ result' = print_sys_info(env, additional_pkgs)
    /\ pc' = "done"
    /\ UNCHANGED <<self, client, env>>

NextSysInfo == PrintSysInfo

SpecSysInfo == InitSysInfo /\ [][NextSysInfo]_vars

\* The packages the call has to report.
ExpectedPackages ==
    {m \in Range(env.modules) : StartsWithLangchain(m)}
        \cup {"langserve", "langgraph"}
        \cup (IF call.additional_pkgs.given THEN Range(call.additional_pkgs.val) ELSE {})
\* How many lines of the kind the output holds for the package.
Lines(kind, pkg) ==
    Cardinality({i \in 1..Len(result.stdout) :
                    result.stdout[i].kind = kind /\ result.stdout[i].pkg = pkg})

\* C10: the package list holds each discovered langchain* module, langserve,
\* langgraph and each additional package exactly once; those of langchain_core,
\* langchain, langchain_community that are listed come first, in that order, and
\* the rest follow in ascending order; every listed package is printed once, with
\* a version or installed line or in the not-installed section, never in both.
C10_PackageOrdering ==
    Done =>
        LET pkgs == result.all_packages
            top == SelectSeq(<<"langchain_core", "langchain", "langchain_community">>,
                             LAMBDA p : p \in ExpectedPackages)
        IN /\ Range(pkgs) = ExpectedPackages
           /\ Len(pkgs) = Cardinality(ExpectedPackages)
           /\ SubSeq(pkgs, 1, Len(top)) = top
           /\ \A i, j \in (Len(top) + 1)..Len(pkgs) : i < j => Rank(pkgs[i]) < Rank(pkgs[j])
           /\ \A p \in ExpectedPackages : Lines("package", p) + Lines("missing", p) = 1
           /\ \A i \in 1..Len(result.stdout) :
                 result.stdout[i].kind \in {"package", "missing"}
                    => result.stdout[i].pkg \in ExpectedPackages

\* C10 witness: all three surfaced packages listed ahead of an additional one,
\* with a package among them that is not installed.
C10_Witness ==
    /\ Done
    /\ Len(result.all_packages) = 6
    /\ SubSeq(result.all_packages, 1, 4) = <<"langchain_core", "langchain", "langchain_community", "fastapi">>
    /\ Lines("missing", "langchain") = 1
    /\ Lines("package", "langchain_community") = 1

====
